---- MODULE Spec2Model ----
\* State-machine model of the market simulator core: the price-time priority
\* order book (sim/order_book.py), the token bucket and latency queue
\* (sim/compute.py) and the Market that composes them (sim/market.py).
\*
\* Prices and latencies are integers in a fixed unit that is far larger than
\* the 1e-9 tolerance of the tick check, so "within 1e-9" reads "equal".
\* Optional values are sequences: <<>> is None and <<x>> is the value x.
EXTENDS Integers, Sequences, FiniteSets, TLC

\* ---------------------------------------------------------------- bounds
MaxQty == 2
MaxOrders == 3
MaxTick == 2
MaxSeq == 2
MaxTokens == 2

\* ---------------------------------------------------------------- inputs
Agents == {"a", "b"}
Sides == {"BUY", "SELL"}
\* tick size is 2 units: 2, 4 and 6 are aligned prices, 3 is not
PriceInputs == {2, 3, 4, 6}
QtyInputs == 1..MaxQty
\* the inputs of the specifications of one path
BookPrices == {2, 3, 4}
SchedPrices == {2, 3}
SchedQtys == {1}
\* token requests, a negative request included
TokenInputs == (0 - 1)..MaxTokens
Configs == {[tick_size |-> 2, fee_per_message |-> 1, fee_per_share |-> 1, tick_duration_ms |-> 2]}
\* compute profiles: a budget and a latency model (the second one with jitter)
Budgets == {[capacity_tokens |-> 2, refill_tokens |-> 1], [capacity_tokens |-> 1, refill_tokens |-> 2]}
Latencies == {[base_ms |-> 1, ms_per_token |-> 2, jitter_ms |-> 0],
              [base_ms |-> 0, ms_per_token |-> 1, jitter_ms |-> 1]}
Profiles == {<<[capacity_tokens |-> 2, refill_tokens |-> 1], [base_ms |-> 1, ms_per_token |-> 2, jitter_ms |-> 0]>>,
             <<[capacity_tokens |-> 1, refill_tokens |-> 2], [base_ms |-> 0, ms_per_token |-> 1, jitter_ms |-> 1]>>}

\* ---------------------------------------------------------------- helpers
None == <<>>
Some(x) == <<x>>
Min(x, y) == IF x <= y THEN x ELSE y
Max(x, y) == IF x >= y THEN x ELSE y
Abs(x) == IF x >= 0 THEN x ELSE 0 - x
SetMax(S) == CHOOSE x \in S : \A y \in S : y <= x
SetMin(S) == CHOOSE x \in S : \A y \in S : x <= y

\* dict[k] = v and del dict[k] on a dict modelled as a function
DictSet(d, k, v) == [x \in (DOMAIN d) \cup {k} |-> IF x = k THEN v ELSE d[x]]
DictDel(d, k) == [x \in (DOMAIN d) \ {k} |-> d[x]]
EmptyDict == [x \in {} |-> 0]

RECURSIVE SumQty(_)
SumQty(q) == IF q = <<>> THEN 0 ELSE Head(q).qty + SumQty(Tail(q))

\* Python round(): nearest integer, ties to the even one (num >= 0, den > 0)
Round(num, den) ==
    LET q == num \div den
        r == num % den
    IN  IF 2 * r < den THEN q
        ELSE IF 2 * r > den THEN q + 1
        ELSE IF q % 2 = 0 THEN q ELSE q + 1

\* mutant of Ceil: the quotient is rounded down
Floor(num, den) == num \div den

\* math.ceil(num / den) for den > 0
Ceil(num, den) == 0 - ((0 - num) \div den)

\* ---------------------------------------------------------------- types
Order(id, agent_id, side, price, qty, ts, is_market) ==
    [id |-> id, agent_id |-> agent_id, side |-> side, price |-> price,
     qty |-> qty, ts |-> ts, is_market |-> is_market]

Trade(buy_order_id, sell_order_id, buy_agent_id, sell_agent_id, price, qty, ts, buyer_limit, seller_limit) ==
    [buy_order_id |-> buy_order_id, sell_order_id |-> sell_order_id,
     buy_agent_id |-> buy_agent_id, sell_agent_id |-> sell_agent_id,
     price |-> price, qty |-> qty, ts |-> ts,
     buyer_limit |-> buyer_limit, seller_limit |-> seller_limit]

\* ---------------------------------------------------------------- order book
\* A book is [bids, asks, id_index]: bids and asks map a price to the FIFO
\* queue of the orders resting there, id_index maps an order id to <<price, side>>.
EmptyBook == [bids |-> EmptyDict, asks |-> EmptyDict, id_index |-> EmptyDict]

\* mutant of _conform_price: the tolerance is a whole tick
ConformWithinTick(tick, price) == Abs(Round(price, tick) * tick - price) < tick

_conform_price(tick, price) == Abs(Round(price, tick) * tick - price) < 1

\* mutant of _best_bid: the lowest bid is taken for the best one
BestBidLowest(book) == IF DOMAIN book.bids = {} THEN None ELSE Some(SetMin(DOMAIN book.bids))
_best_bid(book) == IF DOMAIN book.bids = {} THEN None ELSE Some(SetMax(DOMAIN book.bids))
\* mutant of _best_ask: the highest ask is taken for the best one
BestAskHighest(book) == IF DOMAIN book.asks = {} THEN None ELSE Some(SetMax(DOMAIN book.asks))
_best_ask(book) == IF DOMAIN book.asks = {} THEN None ELSE Some(SetMin(DOMAIN book.asks))
top_of_book(book) == <<_best_bid(book), _best_ask(book)>>

SideOf(book, side) == IF side = "BUY" THEN book.bids ELSE book.asks
WithSide(book, side, d) == IF side = "BUY" THEN [book EXCEPT !.bids = d] ELSE [book EXCEPT !.asks = d]

\* mutant of Front: the newest order of the level is taken first
FrontNewest(queue) == queue[Len(queue)]

\* `resting = level.queue[0]`: the oldest order of the level
Front(queue) == Head(queue)

\* mutant of ExecLoop: a partially filled order goes to the tail of its queue
RECURSIVE ExecLoopRequeue(_, _, _, _, _, _, _)
ExecLoopRequeue(acc, rside, price, take_side, ts, taker_agent, taker_limit) ==
    LET queue == SideOf(acc.book, rside)[price]
    IN  IF acc.remaining > 0 /\ queue # <<>>
        THEN LET resting == Front(queue)
                 traded == Min(acc.remaining, resting.qty)
                 tr == IF take_side = "BUY"
                       THEN Trade(0 - 1, resting.id, taker_agent, resting.agent_id, price, traded, ts,
                                  taker_limit, Some(resting.price))
                       ELSE Trade(resting.id, 0 - 1, resting.agent_id, taker_agent, price, traded, ts,
                                  Some(resting.price), taker_limit)
                 new_rest == Order(resting.id, resting.agent_id, resting.side, resting.price,
                                   resting.qty - traded, resting.ts, FALSE)
                 book2 == IF traded = resting.qty
                          THEN [WithSide(acc.book, rside, DictSet(SideOf(acc.book, rside), price, Tail(queue)))
                                 EXCEPT !.id_index = DictDel(@, resting.id)]
                          ELSE WithSide(acc.book, rside,
                                        DictSet(SideOf(acc.book, rside), price, Tail(queue) \o <<new_rest>>))
             IN  ExecLoopRequeue([book |-> book2, trades |-> Append(acc.trades, tr),
                                  remaining |-> acc.remaining - traded],
                                 rside, price, take_side, ts, taker_agent, taker_limit)
        ELSE acc

\* _execute_against: walk the queue of the level at `price` on the resting
\* side `rside`, oldest order first.  acc = [book, trades, remaining].
RECURSIVE ExecLoop(_, _, _, _, _, _, _)
ExecLoop(acc, rside, price, take_side, ts, taker_agent, taker_limit) ==
    LET queue == SideOf(acc.book, rside)[price]
    IN  IF acc.remaining > 0 /\ queue # <<>>
        THEN LET resting == Front(queue)
                 traded == Min(acc.remaining, resting.qty)
                 tr == IF take_side = "BUY"
                       THEN Trade(0 - 1, resting.id, taker_agent, resting.agent_id, price, traded, ts,
                                  taker_limit, Some(resting.price))
                       ELSE Trade(resting.id, 0 - 1, resting.agent_id, taker_agent, price, traded, ts,
                                  Some(resting.price), taker_limit)
                 new_rest == Order(resting.id, resting.agent_id, resting.side, resting.price,
                                   resting.qty - traded, resting.ts, FALSE)
                 book2 == IF traded = resting.qty
                          THEN [WithSide(acc.book, rside, DictSet(SideOf(acc.book, rside), price, Tail(queue)))
                                 EXCEPT !.id_index = DictDel(@, resting.id)]
                          ELSE WithSide(acc.book, rside,
                                        DictSet(SideOf(acc.book, rside), price, <<new_rest>> \o Tail(queue)))
             IN  ExecLoop([book |-> book2, trades |-> Append(acc.trades, tr),
                           remaining |-> acc.remaining - traded],
                          rside, price, take_side, ts, taker_agent, taker_limit)
        ELSE acc

\* mutant of ExecResult: a trade is priced at the taker's limit when it has one
TakerLimitOf(tr) == IF tr.buy_order_id = 0 - 1 THEN tr.buyer_limit ELSE tr.seller_limit
ExecResultAtTakerLimit(r, qty) ==
    [book |-> r.book,
     trades |-> [i \in 1..Len(r.trades) |->
                    IF TakerLimitOf(r.trades[i]) = None THEN r.trades[i]
                    ELSE [r.trades[i] EXCEPT !.price = TakerLimitOf(r.trades[i])[1]]],
     filled |-> qty - r.remaining]

\* `return trades, qty - remaining`, with the book as the loop left it
ExecResult(r, qty) == [book |-> r.book, trades |-> r.trades, filled |-> qty - r.remaining]

\* returns [book, trades, filled]
_execute_against(book, rside, price, qty, take_side, ts, taker_agent, taker_limit) ==
    ExecResult(ExecLoop([book |-> book, trades |-> <<>>, remaining |-> qty],
                        rside, price, take_side, ts, taker_agent, taker_limit), qty)

\* `if not level.queue: del book[level.price]`
DropIfEmpty(book, rside, price) ==
    IF SideOf(book, rside)[price] = <<>>
    THEN WithSide(book, rside, DictDel(SideOf(book, rside), price))
    ELSE book

\* mutant of LimitStops: an order at exactly the best opposite price does not match
LimitStopsAtTouch(order, best) == IF order.side = "BUY" THEN order.price <= best ELSE order.price >= best

\* the `break` of the loop of place_limit: the order no longer crosses the best opposite price
LimitStops(order, best) == IF order.side = "BUY" THEN order.price < best ELSE order.price > best

\* one pass of a matching loop after _execute_against returned r for the
\* level at `price`: trades.extend, remaining -= filled, drop the empty level
MergeLevel(acc, r, rside, price) ==
    [book |-> DropIfEmpty(r.book, rside, price),
     trades |-> acc.trades \o r.trades,
     remaining |-> acc.remaining - r.filled]

\* the matching loop of place_limit; acc = [book, trades, remaining]
RECURSIVE LimitLoop(_, _)
LimitLoop(acc, order) ==
    IF order.side = "BUY"
    THEN IF acc.remaining > 0 /\ DOMAIN acc.book.asks # {}
         THEN LET best_ask == _best_ask(acc.book)[1]
              IN  IF LimitStops(order, best_ask) THEN acc
                  ELSE LimitLoop(MergeLevel(acc,
                                            _execute_against(acc.book, "SELL", best_ask, acc.remaining, "BUY",
                                                             order.ts, order.agent_id, Some(order.price)),
                                            "SELL", best_ask), order)
         ELSE acc
    ELSE IF acc.remaining > 0 /\ DOMAIN acc.book.bids # {}
         THEN LET best_bid == _best_bid(acc.book)[1]
              IN  IF LimitStops(order, best_bid) THEN acc
                  ELSE LimitLoop(MergeLevel(acc,
                                            _execute_against(acc.book, "BUY", best_bid, acc.remaining, "SELL",
                                                             order.ts, order.agent_id, Some(order.price)),
                                            "BUY", best_bid), order)
         ELSE acc

\* place_limit: returns [raised, book, trades]; raised is the ValueError
\* mutant of RestResidual: the order rests with its whole quantity
RestWholeOrder(m, order) ==
    LET side_d == SideOf(m.book, order.side)
        queue == IF order.price \in DOMAIN side_d THEN side_d[order.price] ELSE <<>>
        rested == [WithSide(m.book, order.side, DictSet(side_d, order.price, Append(queue, order)))
                    EXCEPT !.id_index = DictSet(@, order.id, <<order.price, order.side>>)]
    IN  [raised |-> FALSE,
         book |-> IF m.remaining > 0 THEN rested ELSE m.book,
         trades |-> m.trades]

\* the end of place_limit, m being what the matching loop left: a positive
\* residual rests at the tail of the queue of its price
RestResidual(m, order) ==
    LET resting == Order(order.id, order.agent_id, order.side, order.price, m.remaining, order.ts, FALSE)
        side_d == SideOf(m.book, order.side)
        queue == IF resting.price \in DOMAIN side_d THEN side_d[resting.price] ELSE <<>>
        rested == [WithSide(m.book, order.side, DictSet(side_d, resting.price, Append(queue, resting)))
                    EXCEPT !.id_index = DictSet(@, resting.id, <<resting.price, resting.side>>)]
    IN  [raised |-> FALSE,
         book |-> IF m.remaining > 0 THEN rested ELSE m.book,
         trades |-> m.trades]

place_limit(book, tick, order) ==
    IF order.is_market \/ ~_conform_price(tick, order.price)
    THEN [raised |-> TRUE, book |-> book, trades |-> <<>>]
    ELSE RestResidual(LimitLoop([book |-> book, trades |-> <<>>, remaining |-> order.qty], order), order)

\* the matching loop of place_market
RECURSIVE MarketLoop(_, _)
MarketLoop(acc, order) ==
    IF order.side = "BUY"
    THEN IF acc.remaining > 0 /\ DOMAIN acc.book.asks # {}
         THEN LET best_ask == _best_ask(acc.book)[1]
              IN  MarketLoop(MergeLevel(acc,
                                        _execute_against(acc.book, "SELL", best_ask, acc.remaining, "BUY",
                                                         order.ts, order.agent_id, None),
                                        "SELL", best_ask), order)
         ELSE acc
    ELSE IF acc.remaining > 0 /\ DOMAIN acc.book.bids # {}
         THEN LET best_bid == _best_bid(acc.book)[1]
              IN  MarketLoop(MergeLevel(acc,
                                        _execute_against(acc.book, "BUY", best_bid, acc.remaining, "SELL",
                                                         order.ts, order.agent_id, None),
                                        "BUY", best_bid), order)
         ELSE acc

\* mutant of place_market: the unfilled remainder rests as a limit order at one tick
place_market_rests(book, order) ==
    RestResidual(MarketLoop([book |-> book, trades |-> <<>>, remaining |-> order.qty], order),
                 [order EXCEPT !.price = 2])

\* the end of place_market: `return trades`; an unfilled remainder is discarded
MarketResult(m) == [raised |-> FALSE, book |-> m.book, trades |-> m.trades]

\* place_market: returns [raised, book, trades]
place_market(book, order) ==
    IF ~order.is_market
    THEN [raised |-> TRUE, book |-> book, trades |-> <<>>]
    ELSE MarketResult(MarketLoop([book |-> book, trades |-> <<>>, remaining |-> order.qty], order))

\* mutant of RemoveFirst: the head of the queue is removed, whatever its id
RemoveHead(queue, order_id) == Tail(queue)

\* the queue without the first order whose id is order_id
RECURSIVE RemoveFirst(_, _)
RemoveFirst(queue, order_id) ==
    IF queue = <<>> THEN <<>>
    ELSE IF Head(queue).id = order_id THEN Tail(queue)
    ELSE <<Head(queue)>> \o RemoveFirst(Tail(queue), order_id)

\* mutant of book_cancel: the id index alone decides the answer and keeps the id
book_cancel_by_index(book, order_id) ==
    IF order_id \notin DOMAIN book.id_index THEN [ok |-> FALSE, book |-> book]
    ELSE LET price == book.id_index[order_id][1]
             side == book.id_index[order_id][2]
             side_d == SideOf(book, side)
         IN  IF price \notin DOMAIN side_d THEN [ok |-> TRUE, book |-> book]
             ELSE LET newq == RemoveFirst(side_d[price], order_id)
                  IN  [ok |-> TRUE,
                       book |-> WithSide(book, side, IF newq = <<>> THEN DictDel(side_d, price)
                                                      ELSE DictSet(side_d, price, newq))]

\* mutant of book_cancel: the level is kept when its queue becomes empty
book_cancel_keeps_level(book, order_id) ==
    IF order_id \notin DOMAIN book.id_index THEN [ok |-> FALSE, book |-> book]
    ELSE LET price == book.id_index[order_id][1]
             side == book.id_index[order_id][2]
             side_d == SideOf(book, side)
         IN  IF price \notin DOMAIN side_d THEN [ok |-> FALSE, book |-> book]
             ELSE LET newq == RemoveFirst(side_d[price], order_id)
                      removed == \E i \in 1..Len(side_d[price]) : side_d[price][i].id = order_id
                      b1 == WithSide(book, side, DictSet(side_d, price, newq))
                  IN  [ok |-> removed,
                       book |-> IF removed THEN [b1 EXCEPT !.id_index = DictDel(@, order_id)] ELSE b1]

\* cancel: returns [ok, book]
book_cancel(book, order_id) ==
    IF order_id \notin DOMAIN book.id_index THEN [ok |-> FALSE, book |-> book]
    ELSE LET price == book.id_index[order_id][1]
             side == book.id_index[order_id][2]
             side_d == SideOf(book, side)
         IN  IF price \notin DOMAIN side_d THEN [ok |-> FALSE, book |-> book]
             ELSE LET newq == RemoveFirst(side_d[price], order_id)
                      removed == \E i \in 1..Len(side_d[price]) : side_d[price][i].id = order_id
                      b1 == WithSide(book, side, IF newq = <<>> THEN DictDel(side_d, price)
                                                   ELSE DictSet(side_d, price, newq))
                  IN  [ok |-> removed,
                       book |-> IF removed THEN [b1 EXCEPT !.id_index = DictDel(@, order_id)] ELSE b1]

\* snapshot_depth: the top_k best levels of each side as <<price, quantity>>
RECURSIVE BestFirst(_, _, _)
BestFirst(d, prices, top) ==
    IF prices = {} THEN <<>>
    ELSE LET p == IF top = "max" THEN SetMax(prices) ELSE SetMin(prices)
         IN  <<<<p, SumQty(d[p])>>>> \o BestFirst(d, prices \ {p}, top)
\* mutant of Take: the slice is one entry too long
TakeOneMore(s, k) == SubSeq(s, 1, Min(k + 1, Len(s)))
Take(s, k) == SubSeq(s, 1, Min(k, Len(s)))
snapshot_depth(book, top_k) ==
    [bids |-> Take(BestFirst(book.bids, DOMAIN book.bids, "max"), top_k),
     asks |-> Take(BestFirst(book.asks, DOMAIN book.asks, "min"), top_k)]

\* ---------------------------------------------------------------- compute
\* AgentComputeState is [tokens, budget, latency]
refill(st) == [st EXCEPT !.tokens = Min(st.budget.capacity_tokens, st.tokens + st.budget.refill_tokens)]

\* mutant of consume: a request above the balance is granted what is left
consume_partial(st, requested) ==
    IF requested <= st.tokens
    THEN [st |-> [st EXCEPT !.tokens = st.tokens - requested], used |-> requested, degraded |-> FALSE]
    ELSE [st |-> [st EXCEPT !.tokens = 0], used |-> st.tokens, degraded |-> TRUE]

\* consume: returns [st, used, degraded]
consume(st, requested) ==
    IF requested <= st.tokens
    THEN [st |-> [st EXCEPT !.tokens = st.tokens - requested], used |-> requested, degraded |-> FALSE]
    ELSE [st |-> st, used |-> 0, degraded |-> TRUE]

ScheduledIntent(arrival_t, seq_no, intent_type, agent_id, side, price, qty, tokens_used, latency_ms) ==
    [arrival_t |-> arrival_t, seq |-> seq_no, intent_type |-> intent_type, agent_id |-> agent_id,
     side |-> side, price |-> price, qty |-> qty, tokens_used |-> tokens_used, latency_ms |-> latency_ms]

\* mutant of IntentLess: among equal arrival ticks the later submission comes first
IntentLessNewestFirst(x, y) == x.arrival_t < y.arrival_t \/ (x.arrival_t = y.arrival_t /\ x.seq > y.seq)

\* dataclass(order=True) compares (arrival_t, seq) only
IntentLess(x, y) == x.arrival_t < y.arrival_t \/ (x.arrival_t = y.arrival_t /\ x.seq < y.seq)

\* pop_ready: heappop while the least item has arrival_t <= tick.  The heap is
\* modelled as the set of its items; returns [out, pq].
RECURSIVE PopLoop(_, _, _)
PopLoop(items, tick, out) ==
    IF items = {} THEN [out |-> out, pq |-> items]
    ELSE LET least == CHOOSE x \in items : \A y \in items \ {x} : IntentLess(x, y)
         IN  IF least.arrival_t <= tick
             THEN PopLoop(items \ {least}, tick, Append(out, least))
             ELSE [out |-> out, pq |-> items]
pop_ready(items, tick) == PopLoop(items, tick, <<>>)

\* ---------------------------------------------------------------- market
VARIABLES cfg, book, t, agents, next_order_id, last_trade_price, compute, pq, seq,
          trades_this_tick, volume_this_tick, messages_this_tick, dropped, ret
vars == <<cfg, book, t, agents, next_order_id, last_trade_price, compute, pq, seq,
          trades_this_tick, volume_this_tick, messages_this_tick, dropped, ret>>

AgentState == [cash |-> 0, inventory |-> 0, last_value_price |-> None]

\* the part of the Market that a submission reads and writes
Core == [book |-> book, agents |-> agents, next_order_id |-> next_order_id,
         last_trade_price |-> last_trade_price, trades_this_tick |-> trades_this_tick,
         volume_this_tick |-> volume_this_tick, messages_this_tick |-> messages_this_tick]

\* mutant of _charge_message_fee: the message is counted but not charged
ChargeNoFee(m, agent_id) == [m EXCEPT !.messages_this_tick = @ + 1]

_charge_message_fee(m, agent_id) ==
    [m EXCEPT !.messages_this_tick = @ + 1,
              !.agents[agent_id].cash = @ - cfg.fee_per_message]

\* mutant of ApplyTrade: the seller's inventory is not reduced
ApplyTradeSellerKeeps(m, initiator, tr) ==
    LET b == tr.buy_agent_id
        s == tr.sell_agent_id
        a1 == [m.agents EXCEPT ![b].inventory = @ + tr.qty]
        a2 == [a1 EXCEPT ![b].cash = @ - tr.price * tr.qty]
        a4 == [a2 EXCEPT ![s].cash = @ + tr.price * tr.qty]
        a5 == IF b = initiator THEN [a4 EXCEPT ![b].cash = @ - cfg.fee_per_share * tr.qty]
              ELSE IF s = initiator THEN [a4 EXCEPT ![s].cash = @ - cfg.fee_per_share * tr.qty]
              ELSE a4
    IN  [m EXCEPT !.last_trade_price = Some(tr.price),
                  !.trades_this_tick = @ + 1,
                  !.volume_this_tick = @ + tr.qty,
                  !.agents = a5]

\* mutant of ApplyTrade: the buyer pays the taker fee, whoever initiated
ApplyTradeBuyerPays(m, initiator, tr) ==
    LET b == tr.buy_agent_id
        s == tr.sell_agent_id
        a1 == [m.agents EXCEPT ![b].inventory = @ + tr.qty]
        a2 == [a1 EXCEPT ![b].cash = @ - tr.price * tr.qty]
        a3 == [a2 EXCEPT ![s].inventory = @ - tr.qty]
        a4 == [a3 EXCEPT ![s].cash = @ + tr.price * tr.qty]
    IN  [m EXCEPT !.last_trade_price = Some(tr.price),
                  !.trades_this_tick = @ + 1,
                  !.volume_this_tick = @ + tr.qty,
                  !.agents = [a4 EXCEPT ![b].cash = @ - cfg.fee_per_share * tr.qty]]

\* mutant of ApplyTrade: the seller's ledger is computed from the values read
\* before the buyer's was written
ApplyTradeFromSnapshot(m, initiator, tr) ==
    LET b == tr.buy_agent_id
        s == tr.sell_agent_id
        a1 == [m.agents EXCEPT ![b].inventory = @ + tr.qty]
        a2 == [a1 EXCEPT ![b].cash = @ - tr.price * tr.qty]
        a3 == [a2 EXCEPT ![s].inventory = m.agents[s].inventory - tr.qty]
        a4 == [a3 EXCEPT ![s].cash = m.agents[s].cash + tr.price * tr.qty]
        a5 == IF b = initiator THEN [a4 EXCEPT ![b].cash = @ - cfg.fee_per_share * tr.qty]
              ELSE IF s = initiator THEN [a4 EXCEPT ![s].cash = @ - cfg.fee_per_share * tr.qty]
              ELSE a4
    IN  [m EXCEPT !.last_trade_price = Some(tr.price),
                  !.trades_this_tick = @ + 1,
                  !.volume_this_tick = @ + tr.qty,
                  !.agents = a5]

\* the body of the loop of _apply_trades for one trade
ApplyTrade(m, initiator, tr) ==
    LET b == tr.buy_agent_id
        s == tr.sell_agent_id
        a1 == [m.agents EXCEPT ![b].inventory = @ + tr.qty]
        a2 == [a1 EXCEPT ![b].cash = @ - tr.price * tr.qty]
        a3 == [a2 EXCEPT ![s].inventory = @ - tr.qty]
        a4 == [a3 EXCEPT ![s].cash = @ + tr.price * tr.qty]
        a5 == IF b = initiator THEN [a4 EXCEPT ![b].cash = @ - cfg.fee_per_share * tr.qty]
              ELSE IF s = initiator THEN [a4 EXCEPT ![s].cash = @ - cfg.fee_per_share * tr.qty]
              ELSE a4
    IN  [m EXCEPT !.last_trade_price = Some(tr.price),
                  !.trades_this_tick = @ + 1,
                  !.volume_this_tick = @ + tr.qty,
                  !.agents = a5]

RECURSIVE _apply_trades(_, _, _)
_apply_trades(m, initiator, trades) ==
    IF trades = <<>> THEN m
    ELSE _apply_trades(ApplyTrade(m, initiator, Head(trades)), initiator, Tail(trades))

\* one line of the trade log
TradeRecord(tr, initiator, side) == [trade |-> tr, taker_agent |-> initiator, taker_side |-> side]
\* the line written to the trade log for one trade at tick `tick`
TradeLogLine(rec, tick) ==
    [t |-> tick, price |-> rec.trade.price, qty |-> rec.trade.qty,
     buy_agent |-> rec.trade.buy_agent_id, sell_agent |-> rec.trade.sell_agent_id,
     taker_agent |-> rec.taker_agent, taker_side |-> rec.taker_side]
TradeRecords(trades, initiator, side) == [i \in 1..Len(trades) |-> TradeRecord(trades[i], initiator, side)]

\* the end of a submission, r being what the book returned: an exception of
\* the book propagates, otherwise `self._apply_trades(trades, ...); return trades`
Settle(m2, agent_id, r) ==
    IF r.raised THEN [raised |-> TRUE, m |-> m2, trades |-> <<>>]
    ELSE [raised |-> FALSE,
          m |-> _apply_trades([m2 EXCEPT !.book = r.book], agent_id, r.trades),
          trades |-> r.trades]

\* mutant of submit_limit: the order-id counter is not advanced
submit_limit_same_id(m, tick, agent_id, side, price, qty) ==
    LET m1 == _charge_message_fee(m, agent_id)
        order == Order(m1.next_order_id, agent_id, side, price, qty, tick, FALSE)
    IN  Settle(m1, agent_id, place_limit(m1.book, cfg.tick_size, order))

\* submit_limit: returns [raised, m, trades]; a ValueError of place_limit
\* propagates after the message fee is charged and the order id is taken
submit_limit(m, tick, agent_id, side, price, qty) ==
    LET m1 == _charge_message_fee(m, agent_id)
        order == Order(m1.next_order_id, agent_id, side, price, qty, tick, FALSE)
        m2 == [m1 EXCEPT !.next_order_id = @ + 1]
    IN  Settle(m2, agent_id, place_limit(m2.book, cfg.tick_size, order))

submit_market(m, tick, agent_id, side, qty) ==
    LET m1 == _charge_message_fee(m, agent_id)
        order == Order(m1.next_order_id, agent_id, side, None, qty, tick, TRUE)
        m2 == [m1 EXCEPT !.next_order_id = @ + 1]
    IN  Settle(m2, agent_id, place_market(m2.book, order))

\* what the last operation returned or emitted
Ret(op, agent_id, raised, trades, intent, delivered, payload) ==
    [op |-> op, agent |-> agent_id, raised |-> raised, trades |-> trades,
     intent |-> intent, delivered |-> delivered, payload |-> payload]

Install(m) ==
    /\ book' = m.book
    /\ agents' = m.agents
    /\ next_order_id' = m.next_order_id
    /\ last_trade_price' = m.last_trade_price
    /\ trades_this_tick' = m.trades_this_tick
    /\ volume_this_tick' = m.volume_this_tick
    /\ messages_this_tick' = m.messages_this_tick

Init ==
    /\ cfg \in Configs
    /\ book = EmptyBook
    /\ t = 0
    /\ agents = [a \in Agents |-> AgentState]
    /\ next_order_id = 1
    /\ last_trade_price = None
    /\ compute = EmptyDict
    /\ pq = {}
    /\ seq = 0
    /\ trades_this_tick = 0
    /\ volume_this_tick = 0
    /\ messages_this_tick = 0
    /\ dropped = {}
    /\ ret = Ret("init", "", FALSE, <<>>, None, <<>>, None)

SetAgentCompute(agent_id, budget, latency) ==
    /\ compute' = DictSet(compute, agent_id,
                          [tokens |-> budget.capacity_tokens, budget |-> budget, latency |-> latency])
    /\ ret' = Ret("set_agent_compute", agent_id, FALSE, <<>>, None, <<>>, None)
    /\ UNCHANGED <<cfg, book, t, agents, next_order_id, last_trade_price, pq, seq,
                   trades_this_tick, volume_this_tick, messages_this_tick, dropped>>

\* mutant of BeginTick: begin_tick advances the tick counter as well
BeginTickAdvances ==
    /\ compute' = [a \in DOMAIN compute |-> refill(compute[a])]
    /\ t' = t + 1
    /\ ret' = Ret("begin_tick", "", FALSE, <<>>, None, <<>>, None)
    /\ UNCHANGED <<cfg, book, agents, next_order_id, last_trade_price, pq, seq,
                   trades_this_tick, volume_this_tick, messages_this_tick, dropped>>

BeginTick ==
    /\ compute' = [a \in DOMAIN compute |-> refill(compute[a])]
    /\ ret' = Ret("begin_tick", "", FALSE, <<>>, None, <<>>, None)
    /\ UNCHANGED <<cfg, book, t, agents, next_order_id, last_trade_price, pq, seq,
                   trades_this_tick, volume_this_tick, messages_this_tick, dropped>>

\* the Market after a direct submission returned r, and what the call gave back
Submitted(op, agent_id, side, r) ==
    /\ Install(r.m)
    /\ ret' = Ret(op, agent_id, r.raised, TradeRecords(r.trades, agent_id, side), None, <<>>, None)

SubmitLimit(agent_id, side, price, qty) ==
    /\ next_order_id <= MaxOrders
    /\ messages_this_tick < MaxOrders
    /\ Submitted("submit_limit", agent_id, side, submit_limit(Core, t, agent_id, side, price, qty))
    /\ UNCHANGED <<cfg, t, compute, pq, seq, dropped>>

SubmitMarket(agent_id, side, qty) ==
    /\ next_order_id <= MaxOrders
    /\ messages_this_tick < MaxOrders
    /\ Submitted("submit_market", agent_id, side, submit_market(Core, t, agent_id, side, qty))
    /\ UNCHANGED <<cfg, t, compute, pq, seq, dropped>>

\* mutant of Cancel: only the owner's cancel reaches the book
CancelOwnOnly(agent_id, order_id) ==
    /\ messages_this_tick < MaxOrders
    /\ LET m1 == _charge_message_fee(Core, agent_id)
           own == \E s \in Sides : \E p \in DOMAIN SideOf(book, s) : \E i \in 1..Len(SideOf(book, s)[p]) :
                      SideOf(book, s)[p][i].id = order_id /\ SideOf(book, s)[p][i].agent_id = agent_id
           r == IF own THEN book_cancel(m1.book, order_id) ELSE [ok |-> FALSE, book |-> m1.book]
       IN  /\ Install([m1 EXCEPT !.book = r.book])
           /\ ret' = Ret("cancel", agent_id, FALSE, <<>>, None, <<>>, Some(r.ok))
    /\ UNCHANGED <<cfg, t, compute, pq, seq, dropped>>

Cancel(agent_id, order_id) ==
    /\ messages_this_tick < MaxOrders
    /\ LET m1 == _charge_message_fee(Core, agent_id)
           r == book_cancel(m1.book, order_id)
       IN  /\ Install([m1 EXCEPT !.book = r.book])
           /\ ret' = Ret("cancel", agent_id, FALSE, <<>>, None, <<>>, Some(r.ok))
    /\ UNCHANGED <<cfg, t, compute, pq, seq, dropped>>

\* the jitter term (rng.random() * 2 - 1) * jitter_ms lies in [-jitter_ms, jitter_ms);
\* no draw is made when jitter_ms is 0
JitterDraws(latency) ==
    IF latency.jitter_ms > 0 THEN (0 - latency.jitter_ms)..(latency.jitter_ms - 1) ELSE {0}

\* latency_ms -> ticks: max(1, ceil(latency_ms / max(1e-6, tick_duration_ms))).
\* max(1e-6, tick_duration_ms) is tick_duration_ms for every duration of at
\* least one unit; a non-positive duration is replaced by 1e-6, and dividing
\* by it multiplies by MicroPerUnit
MicroPerUnit == 1000000
LatencyTicks(latency_ms) ==
    Max(1, IF cfg.tick_duration_ms >= 1 THEN Ceil(latency_ms, cfg.tick_duration_ms)
           ELSE latency_ms * MicroPerUnit)

\* one line of the agent log of type "intent"
IntentRecord(intent_type, tokens_req, tokens_used, tokens_remain, latency_ms, arrival_t, degraded) ==
    [t |-> t, intent_type |-> intent_type, tokens_req |-> tokens_req, tokens_used |-> tokens_used,
     tokens_remain |-> tokens_remain, latency_ms |-> latency_ms, arrival_t |-> arrival_t,
     degraded |-> degraded]

\* mutant of PushUnlessDegraded: a degraded request is enqueued all the same
PushAlways(items, degraded, item) == items \cup {item}

\* `if degraded: return` before the push: a degraded request is not enqueued
PushUnlessDegraded(items, degraded, item) == IF degraded THEN items ELSE items \cup {item}

\* the common body of schedule_limit and schedule_market
Schedule(op, intent_type, agent_id, side, price, qty, tokens_requested, jitter) ==
    /\ seq < MaxSeq
    /\ seq' = seq + 1
    /\ IF agent_id \notin DOMAIN compute
       THEN /\ pq' = pq \cup {ScheduledIntent(t, seq + 1, intent_type, agent_id, side, price, qty, 0, 0)}
            /\ ret' = Ret(op, agent_id, FALSE, <<>>,
                          Some(IntentRecord(intent_type, tokens_requested, 0, 0, 0, t, FALSE)), <<>>, None)
            /\ UNCHANGED <<compute, dropped>>
       ELSE LET st == compute[agent_id]
                c == consume(st, tokens_requested)
                latency0 == st.latency.base_ms + c.used * st.latency.ms_per_token
                latency_ms == IF st.latency.jitter_ms > 0 THEN Max(0, latency0 + jitter) ELSE latency0
                arrival_t == t + LatencyTicks(latency_ms)
            IN  /\ compute' = [compute EXCEPT ![agent_id] = c.st]
                /\ pq' = PushUnlessDegraded(pq, c.degraded,
                                             ScheduledIntent(arrival_t, seq + 1, intent_type, agent_id, side,
                                                             price, qty, c.used, latency_ms))
                /\ dropped' = IF c.degraded THEN dropped \cup {seq + 1} ELSE dropped
                /\ ret' = Ret(op, agent_id, FALSE, <<>>,
                              Some(IntentRecord(intent_type, tokens_requested, c.used, c.st.tokens,
                                                latency_ms, arrival_t, c.degraded)), <<>>, None)
    /\ UNCHANGED <<cfg, book, t, agents, next_order_id, last_trade_price,
                   trades_this_tick, volume_this_tick, messages_this_tick>>

\* mutant of ScheduleLimit: a participant without a compute profile bypasses the queue
ScheduleLimitBypass(agent_id, side, price, qty, tokens_requested, jitter) ==
    IF agent_id \notin DOMAIN compute
    THEN SubmitLimit(agent_id, side, price, qty)
    ELSE Schedule("schedule_limit", "limit", agent_id, side, Some(price), qty, tokens_requested, jitter)

ScheduleLimit(agent_id, side, price, qty, tokens_requested, jitter) ==
    Schedule("schedule_limit", "limit", agent_id, side, Some(price), qty, tokens_requested, jitter)

ScheduleMarket(agent_id, side, qty, tokens_requested, jitter) ==
    Schedule("schedule_market", "market", agent_id, side, None, qty, tokens_requested, jitter)

\* mutant of Arrived: an intent applied by step() gets its message fee back
ArrivedUncharged(acc, ev, r) ==
    [m |-> [r.m EXCEPT !.agents[ev.agent_id].cash = @ + cfg.fee_per_message], raised |-> r.raised,
     trades |-> acc.trades \o TradeRecords(r.trades, ev.agent_id, ev.side),
     delivered |-> Append(acc.delivered, ev)]

\* one arrival applied, r being what its submission returned
Arrived(acc, ev, r) ==
    [m |-> r.m, raised |-> r.raised,
     trades |-> acc.trades \o TradeRecords(r.trades, ev.agent_id, ev.side),
     delivered |-> Append(acc.delivered, ev)]

\* the loop of step() over the arrivals; an exception of submit_limit ends it.
\* acc = [m, raised, trades, delivered]
RECURSIVE ApplyArrivals(_, _, _)
ApplyArrivals(acc, arrivals, tick) ==
    IF arrivals = <<>> \/ acc.raised THEN acc
    ELSE LET ev == Head(arrivals)
         IN  ApplyArrivals(Arrived(acc, ev,
                                   IF ev.intent_type = "limit"
                                   THEN submit_limit(acc.m, tick, ev.agent_id, ev.side, ev.price[1], ev.qty)
                                   ELSE submit_market(acc.m, tick, ev.agent_id, ev.side, ev.qty)),
                           Tail(arrivals), tick)

\* the tick record
Payload(m, tick) ==
    LET bb == _best_bid(m.book)
        ba == _best_ask(m.book)
        both == bb # None /\ ba # None
        snap1 == snapshot_depth(m.book, 1)
        snap5 == snapshot_depth(m.book, 5)
        Total(levels) == SumQty([i \in 1..Len(levels) |-> [qty |-> levels[i][2]]])
    IN  [t |-> tick, best_bid |-> bb, best_ask |-> ba,
         mid |-> IF both THEN Some((bb[1] + ba[1]) \div 2) ELSE None,
         spread |-> IF both THEN Some(ba[1] - bb[1]) ELSE None,
         depth1_bid |-> IF snap1.bids # <<>> THEN Some(snap1.bids[1][2]) ELSE None,
         depth1_ask |-> IF snap1.asks # <<>> THEN Some(snap1.asks[1][2]) ELSE None,
         depth5_bid |-> Total(snap5.bids), depth5_ask |-> Total(snap5.asks),
         last_trade |-> m.last_trade_price, num_trades |-> m.trades_this_tick,
         trade_volume |-> m.volume_this_tick, num_messages |-> m.messages_this_tick]

\* the Market after the loop of step() ended as r, and what step() emitted
Stepped(tick, r) ==
    /\ t' = tick
    /\ Install(r.m)
    /\ ret' = Ret("step", "", r.raised, r.trades, None, r.delivered,
                  IF r.raised THEN None ELSE Some(Payload(r.m, tick)))

\* mutant of ResetCounters: step() does not reset the per-tick counters
KeepCounters(m) == m

\* the reset of the per-tick counters at the start of step()
ResetCounters(m) == [m EXCEPT !.trades_this_tick = 0, !.volume_this_tick = 0, !.messages_this_tick = 0]

\* the rest of step() once pop_ready returned p
StepArrivals(tick, p) ==
    /\ pq' = p.pq
    /\ Stepped(tick, ApplyArrivals([m |-> ResetCounters(Core),
                                     raised |-> FALSE, trades |-> <<>>, delivered |-> <<>>], p.out, tick))

Step ==
    /\ t < MaxTick
    /\ StepArrivals(t + 1, pop_ready(pq, t + 1))
    /\ UNCHANGED <<cfg, compute, seq, dropped>>

\* mutant of mark_to_market: the last trade price is preferred to the mid
MarkLastTradeFirst(agent_id, price) ==
    LET bb == _best_bid(book)
        ba == _best_ask(book)
        px == IF price # None THEN price[1]
              ELSE IF last_trade_price # None THEN last_trade_price[1]
              ELSE IF bb # None /\ ba # None THEN (bb[1] + ba[1]) \div 2
              ELSE 0
    IN  [agents |-> [agents EXCEPT ![agent_id].last_value_price = Some(px)],
         value |-> agents[agent_id].cash + agents[agent_id].inventory * px]

\* mark_to_market: the valuation price is the given one, else the mid, else
\* the last trade price, else 0; returns [agents, value]
mark_to_market(agent_id, price) ==
    LET bb == _best_bid(book)
        ba == _best_ask(book)
        px == IF price # None THEN price[1]
              ELSE IF bb # None /\ ba # None THEN (bb[1] + ba[1]) \div 2
              ELSE IF last_trade_price # None THEN last_trade_price[1]
              ELSE 0
    IN  [agents |-> [agents EXCEPT ![agent_id].last_value_price = Some(px)],
         value |-> agents[agent_id].cash + agents[agent_id].inventory * px]

\* the Market after mark_to_market returned r
Marked(agent_id, r) ==
    /\ agents' = r.agents
    /\ ret' = Ret("mark_to_market", agent_id, FALSE, <<>>, None, <<>>, Some(r.value))

MarkToMarket(agent_id, price) ==
    /\ Marked(agent_id, mark_to_market(agent_id, price))
    /\ UNCHANGED <<cfg, book, t, next_order_id, last_trade_price, compute, pq, seq,
                   trades_this_tick, volume_this_tick, messages_this_tick, dropped>>

\* the valuation prices given to mark_to_market: none, or an explicit one
MarkPrices == {None, Some(4)}

Next ==
    \/ \E a \in Agents, p \in MarkPrices : MarkToMarket(a, p)
    \/ \E a \in Agents, b \in Budgets, l \in Latencies : SetAgentCompute(a, b, l)
    \/ BeginTick
    \/ \E a \in Agents, s \in Sides, p \in PriceInputs, q \in QtyInputs : SubmitLimit(a, s, p, q)
    \/ \E a \in Agents, s \in Sides, q \in QtyInputs : SubmitMarket(a, s, q)
    \/ \E a \in Agents, id \in 1..MaxOrders : Cancel(a, id)
    \/ \E a \in Agents, s \in Sides, p \in PriceInputs, q \in QtyInputs, k \in TokenInputs :
          \E j \in (IF a \in DOMAIN compute THEN JitterDraws(compute[a].latency) ELSE {0}) :
             ScheduleLimit(a, s, p, q, k, j)
    \/ \E a \in Agents, s \in Sides, q \in QtyInputs, k \in TokenInputs :
          \E j \in (IF a \in DOMAIN compute THEN JitterDraws(compute[a].latency) ELSE {0}) :
             ScheduleMarket(a, s, q, k, j)
    \/ Step

Spec == Init /\ [][Next]_vars

\* the direct path alone: submissions and cancels applied to the book at once
NextBook ==
    \/ \E a \in Agents, s \in Sides, p \in BookPrices, q \in QtyInputs : SubmitLimit(a, s, p, q)
    \/ \E a \in Agents, s \in Sides, q \in QtyInputs : SubmitMarket(a, s, q)
    \/ \E a \in Agents, id \in 1..MaxOrders : Cancel(a, id)

SpecBook == Init /\ [][NextBook]_vars

\* the scheduled path alone: token buckets, the latency queue and the tick loop;
\* the driver configures the participants before it runs the first tick
Configuring == t = 0 /\ seq = 0

NextSched ==
    \/ \E a \in Agents, pr \in Profiles : Configuring /\ SetAgentCompute(a, pr[1], pr[2])
    \/ BeginTick
    \/ \E a \in Agents, s \in Sides, p \in SchedPrices, q \in SchedQtys, k \in TokenInputs :
          \E j \in (IF a \in DOMAIN compute THEN JitterDraws(compute[a].latency) ELSE {0}) :
             ScheduleLimit(a, s, p, q, k, j)
    \/ \E a \in Agents, s \in Sides, q \in SchedQtys, k \in TokenInputs :
          \E j \in (IF a \in DOMAIN compute THEN JitterDraws(compute[a].latency) ELSE {0}) :
             ScheduleMarket(a, s, q, k, j)
    \/ Step

SpecSched == Init /\ [][NextSched]_vars

\* every operation of the Market, called as the driver calls them: the compute
\* profiles first, then per tick begin_tick, the participants in a fixed order
\* ("a" on the direct path, then "b" on the scheduled path), then step(); a
\* valuation follows a step
SubmitOps == {"submit_limit", "submit_market"}
ScheduleOps == {"schedule_limit", "schedule_market"}
TickOpen == ret.op \in {"begin_tick", "cancel"} \cup SubmitOps \cup ScheduleOps
FirstActs == ret.op \in {"begin_tick", "cancel"} \cup SubmitOps
DirectSides == {"SELL"}
MarketSchedSides == {"BUY"}
MarketPrices == {2, 3}
MarketQtys == {1}
MarketTokens == {1, 2}
NextMarket ==
    \/ \E pr \in Profiles : ret.op \in {"init", "set_agent_compute"} /\ SetAgentCompute("b", pr[1], pr[2])
    \/ ret.op \in {"init", "set_agent_compute", "step"} /\ BeginTick
    \/ \E s \in DirectSides, p \in MarketPrices, q \in MarketQtys : FirstActs /\ SubmitLimit("a", s, p, q)
    \/ \E s \in DirectSides, q \in MarketQtys : FirstActs /\ SubmitMarket("a", s, q)
    \/ \E id \in 1..MaxOrders : FirstActs /\ Cancel("a", id)
    \/ \E s \in MarketSchedSides, p \in MarketPrices, q \in MarketQtys, k \in MarketTokens :
          \E j \in (IF "b" \in DOMAIN compute THEN JitterDraws(compute["b"].latency) ELSE {0}) :
             TickOpen /\ ScheduleLimit("b", s, p, q, k, j)
    \/ \E s \in MarketSchedSides, q \in MarketQtys, k \in MarketTokens :
          \E j \in (IF "b" \in DOMAIN compute THEN JitterDraws(compute["b"].latency) ELSE {0}) :
             TickOpen /\ ScheduleMarket("b", s, q, k, j)
    \/ TickOpen /\ Step
    \/ ret.op = "step" /\ MarkToMarket("a", None)

SpecMarket == Init /\ [][NextMarket]_vars

\* ================================================================ claims

\* the id of the resting order a trade consumed (the aggressive side has id -1)
RestingId(tr) == IF tr.buy_order_id = 0 - 1 THEN tr.sell_order_id ELSE tr.buy_order_id

\* the orders resting in a book
Resting(bk) ==
    UNION {{bk.bids[p][i] : i \in 1..Len(bk.bids[p])} : p \in DOMAIN bk.bids}
    \cup UNION {{bk.asks[p][i] : i \in 1..Len(bk.asks[p])} : p \in DOMAIN bk.asks}

\* the quantity the trades of `recs` took from the resting order `id`
RECURSIVE TakenFrom(_, _)
TakenFrom(recs, id) ==
    IF recs = <<>> THEN 0
    ELSE (IF RestingId(Head(recs).trade) = id THEN Head(recs).trade.qty ELSE 0) + TakenFrom(Tail(recs), id)

C3_TickRejection ==
    \A a \in Agents, s \in Sides, p \in BookPrices, q \in QtyInputs :
        (p % cfg.tick_size # 0) =>
            place_limit(book, cfg.tick_size, Order(next_order_id, a, s, p, q, t, FALSE))
                = [raised |-> TRUE, book |-> book, trades |-> <<>>]

\* a misaligned limit order was rejected on a book with resting orders on both sides
C3_Witness ==
    /\ ret.op = "submit_limit"
    /\ ret.raised
    /\ DOMAIN book.bids # {} /\ DOMAIN book.asks # {}

\* the net quantity and cash the trades of `recs` move to participant x,
\* taker fees included
RECURSIVE NetInventory(_, _)
NetInventory(recs, x) ==
    IF recs = <<>> THEN 0
    ELSE LET tr == Head(recs).trade
         IN  (IF tr.buy_agent_id = x THEN tr.qty ELSE 0) - (IF tr.sell_agent_id = x THEN tr.qty ELSE 0)
             + NetInventory(Tail(recs), x)
RECURSIVE NetCash(_, _)
NetCash(recs, x) ==
    IF recs = <<>> THEN 0
    ELSE LET tr == Head(recs).trade
         IN  (IF tr.sell_agent_id = x THEN tr.price * tr.qty ELSE 0)
             - (IF tr.buy_agent_id = x THEN tr.price * tr.qty ELSE 0)
             - (IF Head(recs).taker_agent = x THEN cfg.fee_per_share * tr.qty ELSE 0)
             + NetCash(Tail(recs), x)
MessageFee(x) == IF ret'.agent = x THEN cfg.fee_per_message ELSE 0

C5_TokenBounded ==
    \A a \in DOMAIN compute :
        0 <= compute[a].tokens /\ compute[a].tokens <= compute[a].budget.capacity_tokens

C7_DegradedDropped ==
    [][/\ (ret'.op \in ScheduleOps /\ ret'.intent[1].degraded) =>
              (pq' = pq /\ compute' = compute /\ book' = book /\ agents' = agents
               /\ next_order_id' = next_order_id /\ (seq + 1) \in dropped')
       /\ \A x \in pq' : x.seq \notin dropped'
       /\ ret'.op = "step" =>
              \A i \in 1..Len(ret'.delivered) : ret'.delivered[i].seq \notin dropped']_vars

\* a step applied an intent that was granted after another request had been dropped
C7_Witness ==
    /\ ret.op = "step"
    /\ ret.delivered # <<>>
    /\ \E d \in dropped : d < ret.delivered[1].seq

\* C8 -- scheduling order determinism: intents with equal arrival tick are
\* applied in the order of their submission (increasing sequence number),
\* and none of them is left in the queue behind a later-submitted one.
C8_SubmissionOrder ==
    ret.op = "step" =>
        /\ \A i \in 1..Len(ret.delivered), j \in 1..Len(ret.delivered) :
               (i < j /\ ret.delivered[i].arrival_t = ret.delivered[j].arrival_t) =>
                   ret.delivered[i].seq < ret.delivered[j].seq
        /\ \A i \in 1..Len(ret.delivered), y \in pq :
               y.arrival_t = ret.delivered[i].arrival_t => ret.delivered[i].seq < y.seq

\* a step applied two intents of different participants that were scheduled in
\* different ticks (different latencies) for the same arrival tick
C8_Witness ==
    /\ ret.op = "step"
    /\ Len(ret.delivered) = 2
    /\ ret.delivered[1].arrival_t = ret.delivered[2].arrival_t
    /\ ret.delivered[1].agent_id # ret.delivered[2].agent_id
    /\ LatencyTicks(ret.delivered[1].latency_ms) # LatencyTicks(ret.delivered[2].latency_ms)

\* C9 -- exactly-once, on-time delivery: an intent granted to a configured
\* participant is never overdue; the step that reaches its arrival tick applies
\* it exactly once and removes it from the queue, and an earlier step neither
\* applies nor removes it.
C9_ExactlyOnceOnTime ==
    [][ret'.op = "step" =>
        \A x \in pq : x.agent_id \in DOMAIN compute =>
            /\ x.arrival_t >= t'
            /\ x.arrival_t = t' =>
                   /\ x \notin pq'
                   /\ Cardinality({i \in 1..Len(ret'.delivered) : ret'.delivered[i] = x}) = 1
            /\ x.arrival_t > t' =>
                   /\ x \in pq'
                   /\ \A i \in 1..Len(ret'.delivered) : ret'.delivered[i] # x]_vars

\* C10 -- latency to tick conversion: a granted request of a configured
\* participant arrives ticks >= 1 after the current tick, where ticks is the
\* least integer >= 1 with ticks * tick_duration >= latency; without jitter
\* latency = base + used * ms_per_token, with jitter it is that value moved by
\* less than jitter_ms, or 0 when the moved value is negative.
C10_LatencyToTicks ==
    (ret.op \in ScheduleOps /\ ret.agent \in DOMAIN compute /\ ~ret.intent[1].degraded) =>
        LET r == ret.intent[1]
            lat == compute[ret.agent].latency
            nominal == lat.base_ms + r.tokens_used * lat.ms_per_token
            ticks == r.arrival_t - r.t
            dur == cfg.tick_duration_ms
        IN  /\ lat.jitter_ms = 0 => r.latency_ms = nominal
            /\ lat.jitter_ms > 0 =>
                   /\ r.latency_ms >= 0
                   /\ \/ (nominal - lat.jitter_ms <= r.latency_ms /\ r.latency_ms < nominal + lat.jitter_ms)
                      \/ (r.latency_ms = 0 /\ nominal - lat.jitter_ms < 0)
            /\ ticks >= 1
            /\ ticks * dur >= r.latency_ms
            /\ ticks > 1 => (ticks - 1) * dur < r.latency_ms
            /\ \E x \in pq : x.seq = seq /\ x.arrival_t = r.arrival_t /\ x.tokens_used = r.tokens_used
                             /\ x.latency_ms = r.latency_ms

\* a granted request without jitter whose latency of 3 units took two ticks of 2 units
C10_Witness ==
    /\ ret.op \in ScheduleOps
    /\ ret.agent \in DOMAIN compute
    /\ ~ret.intent[1].degraded
    /\ compute[ret.agent].latency.jitter_ms = 0
    /\ ret.intent[1].tokens_used = 1
    /\ ret.intent[1].arrival_t = ret.intent[1].t + 2

\* C11 -- a participant without a compute profile is zero-latency and
\* unbounded: its scheduling request is never degraded, uses no tokens and is
\* enqueued with the current tick as arrival tick; the next step() applies the
\* intent, ahead of every intent of a configured participant applied by that step.
C11_UnconfiguredImmediate ==
    [][/\ (ret'.op \in ScheduleOps /\ ret'.agent \notin DOMAIN compute) =>
              /\ ~ret'.intent[1].degraded
              /\ ret'.intent[1].tokens_used = 0
              /\ ret'.intent[1].arrival_t = t
              /\ compute' = compute
              /\ \E x \in pq' \ pq : x.seq = seq' /\ x.agent_id = ret'.agent /\ x.arrival_t = t
       /\ ret'.op = "step" =>
              \A x \in pq : x.agent_id \notin DOMAIN compute =>
                  /\ x \notin pq'
                  /\ \E i \in 1..Len(ret'.delivered) :
                         /\ ret'.delivered[i] = x
                         /\ \A j \in 1..Len(ret'.delivered) :
                                ret'.delivered[j].agent_id \in DOMAIN compute => i < j]_vars

Opposite(side) == IF side = "BUY" THEN "SELL" ELSE "BUY"

\* the total quantity of a sequence of trades
RECURSIVE SumTrades(_)
SumTrades(trades) == IF trades = <<>> THEN 0 ELSE Head(trades).qty + SumTrades(Tail(trades))

\* the total quantity resting on the price levels `prices` of one side
RECURSIVE LevelsQty(_, _)
LevelsQty(d, prices) ==
    IF prices = {} THEN 0
    ELSE LET p == CHOOSE x \in prices : TRUE
         IN  SumQty(d[p]) + LevelsQty(d, prices \ {p})
SideQty(bk, side) == LevelsQty(SideOf(bk, side), DOMAIN SideOf(bk, side))

\* what C12 says of the result r of place_market for `order` on the book bk
MarketOrderGone(r, order, bk) ==
    /\ ~r.raised
    /\ SumTrades(r.trades) = Min(order.qty, SideQty(bk, Opposite(order.side)))
    /\ SideQty(r.book, Opposite(order.side)) = SideQty(bk, Opposite(order.side)) - SumTrades(r.trades)
    /\ SideOf(r.book, order.side) = SideOf(bk, order.side)
    /\ order.id \notin DOMAIN r.book.id_index
    /\ \A o \in Resting(r.book) : o.id # order.id
MarketOrderCase(order) == MarketOrderGone(place_market(book, order), order, book)

RestingQty(bk, id) ==
    IF \E o \in Resting(bk) : o.id = id THEN (CHOOSE o \in Resting(bk) : o.id = id).qty ELSE 0

\* the queue of the level at `price` of a side, empty when there is no such level
QueueAt(d, price) == IF price \in DOMAIN d THEN d[price] ELSE <<>>

\* what C13 says of the result r of an accepted place_limit for `order` on bk
LimitAccounted(r, order, bk) ==
    /\ ~r.raised
    /\ SumTrades(r.trades) + RestingQty(r.book, order.id) = order.qty
    /\ RestingQty(r.book, order.id) > 0 =>
           /\ LET opp == SideOf(r.book, Opposite(order.side))
              IN  \/ opp = EmptyDict
                  \/ (order.side = "BUY" /\ order.price < SetMin(DOMAIN opp))
                  \/ (order.side = "SELL" /\ order.price > SetMax(DOMAIN opp))
           /\ QueueAt(SideOf(r.book, order.side), order.price)
                  = Append(QueueAt(SideOf(bk, order.side), order.price),
                           Order(order.id, order.agent_id, order.side, order.price,
                                 RestingQty(r.book, order.id), order.ts, FALSE))
           /\ r.book.id_index[order.id] = <<order.price, order.side>>
    /\ RestingQty(r.book, order.id) = 0 =>
           /\ SideOf(r.book, order.side) = SideOf(bk, order.side)
           /\ order.id \notin DOMAIN r.book.id_index
LimitOrderCase(order) == LimitAccounted(place_limit(book, cfg.tick_size, order), order, book)

IsResting(bk, id) == \E o \in Resting(bk) : o.id = id

\* what C14 says of the result r of cancel(id) on the book bk
CancelAnswer(r, id, bk) ==
    /\ r.ok <=> IsResting(bk, id)
    /\ ~r.ok => r.book = bk
    /\ ~book_cancel(r.book, id).ok
CancelCase(id) == CancelAnswer(book_cancel(book, id), id, book)

Without(queue, id) == LET Keep(o) == o.id # id IN SelectSeq(queue, Keep)

\* what C15 says of the result r of cancel(id) when the order o of that id rests in bk
CancelRemovesOne(r, o, bk) ==
    /\ r.ok
    /\ Len(Without(SideOf(bk, o.side)[o.price], o.id)) = Len(SideOf(bk, o.side)[o.price]) - 1
    /\ QueueAt(SideOf(r.book, o.side), o.price) = Without(SideOf(bk, o.side)[o.price], o.id)
    /\ \A p \in (DOMAIN SideOf(bk, o.side) \cup DOMAIN SideOf(r.book, o.side)) \ {o.price} :
           /\ p \in DOMAIN SideOf(bk, o.side) /\ p \in DOMAIN SideOf(r.book, o.side)
           /\ SideOf(r.book, o.side)[p] = SideOf(bk, o.side)[p]
    /\ SideOf(r.book, Opposite(o.side)) = SideOf(bk, Opposite(o.side))
    /\ Resting(r.book) = Resting(bk) \ {o}
CancelOneCase(o) == CancelRemovesOne(book_cancel(book, o.id), o, book)

\* C15 -- in every state, a successful cancel removes exactly the order of
\* that id: the other orders of its price level keep their quantities and
\* their relative order, and every other level of both sides is unchanged.
C15_CancelFrame == \A o \in Resting(book) : CancelOneCase(o)

\* the older of two orders was cancelled and the younger still rests whole
C15_Witness ==
    /\ ret.op = "cancel"
    /\ ret.payload = Some(TRUE)
    /\ next_order_id = 3
    /\ volume_this_tick = 0
    /\ DOMAIN book.id_index = {2}
    /\ \E o \in Resting(book) : o.id = 2 /\ o.qty = MaxQty

\* the cash the trades of `recs` move to participant x, fees aside
RECURSIVE CashFlow(_, _)
CashFlow(recs, x) ==
    IF recs = <<>> THEN 0
    ELSE (IF Head(recs).trade.sell_agent_id = x THEN Head(recs).trade.price * Head(recs).trade.qty ELSE 0)
         - (IF Head(recs).trade.buy_agent_id = x THEN Head(recs).trade.price * Head(recs).trade.qty ELSE 0)
         + CashFlow(Tail(recs), x)

\* the total quantity of the trades of `recs`
RECURSIVE RecordsQty(_)
RecordsQty(recs) == IF recs = <<>> THEN 0 ELSE Head(recs).trade.qty + RecordsQty(Tail(recs))

\* the owner of the resting order of a trade: the party opposite to the taker side
RestingOwner(rec) == IF rec.taker_side = "BUY" THEN rec.trade.sell_agent_id ELSE rec.trade.buy_agent_id

\* what the step charged participant x beyond the trades' cash and the message fee
TakerFeeCharged(x) == agents[x].cash + CashFlow(ret'.trades, x) - MessageFee(x) - agents'[x].cash

AppliedFor(delivered, x) == Cardinality({i \in 1..Len(delivered) : delivered[i].agent_id = x})

C18_FailureAtomic ==
    [][(ret'.op = "submit_limit" /\ ret'.raised) =>
        /\ book' = book
        /\ agents' = agents
        /\ messages_this_tick' = messages_this_tick
        /\ trades_this_tick' = trades_this_tick
        /\ volume_this_tick' = volume_this_tick
        /\ next_order_id' = next_order_id
        /\ pq' = pq /\ seq' = seq /\ compute' = compute]_vars

\* C19 -- monotonic time: a step() raises the tick counter by exactly one and
\* every other operation leaves it as it was; the record a step() returns
\* carries the new tick, which is above the tick of every earlier record.
C19_MonotonicTime ==
    [][/\ ret'.op = "step" => t' = t + 1
       /\ ret'.op # "step" => t' = t
       /\ (ret'.op = "step" /\ ret'.payload # None) =>
              (ret'.payload[1].t = t' /\ ret'.payload[1].t > t)]_vars

\* the second step returned the record of tick 2, after every other kind of
\* operation had been called
C19_Witness ==
    /\ ret.op = "step"
    /\ ret.payload # None
    /\ ret.payload[1].t = 2
    /\ "b" \in DOMAIN compute
    /\ next_order_id > 1
    /\ seq > 0

AskPrices == {4, 6}
BidPrices == {2, 4}
TickQtys == {1, 2}
TickTokens == {1}
NextTick ==
    \/ \E pr \in Profiles : ret.op = "init" /\ SetAgentCompute("b", pr[1], pr[2])
    \/ ret.op \in {"init", "set_agent_compute", "step", "mark_to_market"} /\ BeginTick
    \/ \E p \in AskPrices, q \in TickQtys : FirstActs /\ SubmitLimit("a", "SELL", p, q)
    \/ \E p \in BidPrices, k \in TickTokens :
          \E j \in (IF "b" \in DOMAIN compute THEN JitterDraws(compute["b"].latency) ELSE {0}) :
             TickOpen /\ ScheduleLimit("b", "BUY", p, 1, k, j)
    \/ TickOpen /\ Step
    \/ \E x \in Agents, p \in MarkPrices : ret.op = "step" /\ MarkToMarket(x, p)

SpecTick == Init /\ [][NextTick]_vars

\* ---------------------------------------------------------------- C21
BestOf(prices, top) ==
    IF prices = {} THEN None ELSE Some(IF top = "max" THEN SetMax(prices) ELSE SetMin(prices))
TickRecord == ret.payload[1]
StepReturned == ret.op = "step" /\ ~ret.raised

\* C21: in every record returned by step(), best_bid and best_ask are the best
\* prices of the book left once every due intent was applied (None for an empty
\* side), mid and spread are present exactly when both prices are, and then
\* mid = (best_bid + best_ask) / 2 and spread = best_ask - best_bid > 0
C21_TickPrices ==
    StepReturned =>
       /\ \A ev \in pq : ev.arrival_t > t
       /\ TickRecord.best_bid = BestOf(DOMAIN book.bids, "max")
       /\ TickRecord.best_ask = BestOf(DOMAIN book.asks, "min")
       /\ (TickRecord.mid # None) <=> (TickRecord.best_bid # None /\ TickRecord.best_ask # None)
       /\ (TickRecord.spread # None) <=> (TickRecord.best_bid # None /\ TickRecord.best_ask # None)
       /\ TickRecord.mid # None =>
             /\ 2 * TickRecord.mid[1] = TickRecord.best_bid[1] + TickRecord.best_ask[1]
             /\ TickRecord.spread[1] = TickRecord.best_ask[1] - TickRecord.best_bid[1]
             /\ TickRecord.spread[1] > 0

\* a step applied a due bid, left another intent pending and reported a
\* two-sided book with two ask levels
C21_Witness ==
    /\ StepReturned
    /\ ret.delivered # <<>>
    /\ pq # {}
    /\ TickRecord.mid # None
    /\ Cardinality(DOMAIN book.asks) = 2

\* a step reported a one-sided book: no mid and no spread
C21_WitnessOneSided ==
    StepReturned /\ TickRecord.best_ask # None /\ TickRecord.best_bid = None /\ TickRecord.mid = None

\* ---------------------------------------------------------------- C22
\* twice the reference price of a valuation: the supplied price, else the mid
\* of a two-sided book, else the last trade price, else zero
TwiceReference(price) ==
    IF price # None THEN 2 * price[1]
    ELSE IF DOMAIN book.bids # {} /\ DOMAIN book.asks # {}
         THEN SetMax(DOMAIN book.bids) + SetMin(DOMAIN book.asks)
    ELSE IF last_trade_price # None THEN 2 * last_trade_price[1]
    ELSE 0
Valued(x, price) ==
    /\ 2 * ret'.payload[1] = 2 * agents[x].cash + agents[x].inventory * TwiceReference(price)
    /\ 2 * agents'[x].last_value_price[1] = TwiceReference(price)
    /\ \A y \in Agents : /\ agents'[y].cash = agents[y].cash
                         /\ agents'[y].inventory = agents[y].inventory
                         /\ y # x => agents'[y] = agents[y]
    /\ UNCHANGED <<cfg, book, t, next_order_id, last_trade_price, compute, pq, seq,
                   trades_this_tick, volume_this_tick, messages_this_tick>>

C22_WitnessLastTrade ==
    /\ ret.op = "mark_to_market" /\ _best_bid(book) = None /\ _best_ask(book) = Some(6)
    /\ agents[ret.agent].inventory # 0 /\ agents[ret.agent].last_value_price = Some(4)
C22_WitnessZero ==
    /\ ret.op = "mark_to_market" /\ last_trade_price = None
    /\ agents[ret.agent].last_value_price = Some(0)

\* ---------------------------------------------------------------- log sinks
\* A write to an attached log sink that fails raises out of the operation:
\* _log_step, _log_agent and the trade log write of _apply_trades have no
\* exception handler. The fault input names the sink whose writes fail
\* ("none": no sink is attached or every write succeeds).
SinkFaults == {"none", "trades", "agent", "steps"}

\* the end of a submission whose sinks fail as `fault` says: the trade log is
\* written inside the loop of _apply_trades after the ledger update of each
\* trade, the agent log after the loop
SettleSink(m2, agent_id, r, fault) ==
    IF r.raised THEN [raised |-> TRUE, m |-> m2, trades |-> <<>>]
    ELSE IF fault = "trades" /\ r.trades # <<>>
         THEN [raised |-> TRUE,
               m |-> ApplyTrade([m2 EXCEPT !.book = r.book], agent_id, r.trades[1]),
               trades |-> <<>>]
    ELSE [raised |-> fault = "agent",
          m |-> _apply_trades([m2 EXCEPT !.book = r.book], agent_id, r.trades),
          trades |-> IF fault = "agent" THEN <<>> ELSE r.trades]

submit_limit_sink(m, tick, agent_id, side, price, qty, fault) ==
    LET m1 == _charge_message_fee(m, agent_id)
        order == Order(m1.next_order_id, agent_id, side, price, qty, tick, FALSE)
        m2 == [m1 EXCEPT !.next_order_id = @ + 1]
    IN  SettleSink(m2, agent_id, place_limit(m2.book, cfg.tick_size, order), fault)

submit_market_sink(m, tick, agent_id, side, qty, fault) ==
    LET m1 == _charge_message_fee(m, agent_id)
        order == Order(m1.next_order_id, agent_id, side, None, qty, tick, TRUE)
        m2 == [m1 EXCEPT !.next_order_id = @ + 1]
    IN  SettleSink(m2, agent_id, place_market(m2.book, order), fault)

SubmitLimitSink(agent_id, side, price, qty, fault) ==
    /\ next_order_id <= MaxOrders
    /\ messages_this_tick < MaxOrders
    /\ Submitted("submit_limit", agent_id, side,
                 submit_limit_sink(Core, t, agent_id, side, price, qty, fault))
    /\ UNCHANGED <<cfg, t, compute, pq, seq, dropped>>

SubmitMarketSink(agent_id, side, qty, fault) ==
    /\ next_order_id <= MaxOrders
    /\ messages_this_tick < MaxOrders
    /\ Submitted("submit_market", agent_id, side,
                 submit_market_sink(Core, t, agent_id, side, qty, fault))
    /\ UNCHANGED <<cfg, t, compute, pq, seq, dropped>>

\* cancel(): the fee is charged and the book answers before the agent log is written
CancelSink(agent_id, order_id, fault) ==
    /\ messages_this_tick < MaxOrders
    /\ LET m1 == _charge_message_fee(Core, agent_id)
           r == book_cancel(m1.book, order_id)
       IN  /\ Install([m1 EXCEPT !.book = r.book])
           /\ ret' = Ret("cancel", agent_id, fault = "agent", <<>>, None, <<>>,
                         IF fault = "agent" THEN None ELSE Some(r.ok))
    /\ UNCHANGED <<cfg, t, compute, pq, seq, dropped>>

\* step(): the step log is written last, after the payload is built
SteppedSink(tick, r, fault) ==
    /\ t' = tick
    /\ Install(r.m)
    /\ ret' = Ret("step", "", r.raised \/ fault = "steps", r.trades, None, r.delivered,
                  IF r.raised \/ fault = "steps" THEN None ELSE Some(Payload(r.m, tick)))

StepArrivalsSink(tick, p, fault) ==
    /\ pq' = p.pq
    /\ SteppedSink(tick, ApplyArrivals([m |-> ResetCounters(Core),
                                         raised |-> FALSE, trades |-> <<>>, delivered |-> <<>>], p.out, tick),
                   fault)

StepSink(fault) ==
    /\ t < MaxTick
    /\ StepArrivalsSink(t + 1, pop_ready(pq, t + 1), fault)
    /\ UNCHANGED <<cfg, compute, seq, dropped>>

\* the direct path and step() with sinks attached, at aligned prices: "a"
\* rests and cancels asks, "b" takes them with limit and market orders
SinkPrices == {2, 4}
NextSink ==
    \/ \E p \in SinkPrices, q \in QtyInputs, f \in {"none", "agent"} : SubmitLimitSink("a", "SELL", p, q, f)
    \/ \E p \in SinkPrices, q \in QtyInputs, f \in {"none", "trades", "agent"} :
          SubmitLimitSink("b", "BUY", p, q, f)
    \/ \E q \in QtyInputs, f \in {"none", "trades", "agent"} : SubmitMarketSink("b", "BUY", q, f)
    \/ \E id \in 1..MaxOrders, f \in {"none", "agent"} : CancelSink("a", id, f)
    \/ \E f \in {"none", "steps"} : StepSink(f)

SpecSink == Init /\ [][NextSink]_vars

\* ---------------------------------------------------------------- C24
\* C24: a failing write to a step, trade or agent log sink does not keep the
\* operation from completing, and book, ledger and scheduler end as they would
\* without a sink: every step taken with a failing sink is a step of the
\* operation without one
C24_BestEffortLogging ==
    [][/\ \A a \in Agents, s \in Sides, p \in SinkPrices, q \in QtyInputs, f \in SinkFaults :
             SubmitLimitSink(a, s, p, q, f) => SubmitLimit(a, s, p, q)
       /\ \A a \in Agents, s \in Sides, q \in QtyInputs, f \in SinkFaults :
             SubmitMarketSink(a, s, q, f) => SubmitMarket(a, s, q)
       /\ \A a \in Agents, id \in 1..MaxOrders, f \in SinkFaults :
             CancelSink(a, id, f) => Cancel(a, id)
       /\ \A f \in SinkFaults : StepSink(f) => Step]_vars

\* the part of C24 about the ledger: with a failing trade sink the ledger ends
\* as it does without a sink, every matched trade applied
C24_LedgerSeesEveryTrade ==
    [][\A a \in Agents, s \in Sides, p \in SinkPrices, q \in QtyInputs :
          SubmitLimitSink(a, s, p, q, "trades") =>
             \A x \in Agents : agents'[x] = submit_limit(Core, t, a, s, p, q).m.agents[x]]_vars

\* ---------------------------------------------------------------- construction
\* Market(config, agent_ids): OrderBook.__init__ asserts tick_size > 0, and
\* nothing checks tick_duration_ms; a Market exists for every configuration
\* the constructor lets through
ConfigInputs == {[tick_size |-> ts, fee_per_message |-> 1, fee_per_share |-> 1, tick_duration_ms |-> d] :
                    ts \in {0, 2}, d \in {0, 2}}
Constructs(config) == config.tick_size > 0
InitConfig ==
    /\ cfg \in {c \in ConfigInputs : Constructs(c)}
    /\ book = EmptyBook
    /\ t = 0
    /\ agents = [a \in Agents |-> AgentState]
    /\ next_order_id = 1
    /\ last_trade_price = None
    /\ compute = EmptyDict
    /\ pq = {}
    /\ seq = 0
    /\ trades_this_tick = 0
    /\ volume_this_tick = 0
    /\ messages_this_tick = 0
    /\ dropped = {}
    /\ ret = Ret("init", "", FALSE, <<>>, None, <<>>, None)

\* the scheduled path of one participant on a Market of any constructible configuration
NextConfig ==
    \/ \E pr \in Profiles : Configuring /\ SetAgentCompute("b", pr[1], pr[2])
    \/ BeginTick
    \/ \E s \in Sides, k \in MarketTokens :
          \E j \in (IF "b" \in DOMAIN compute THEN JitterDraws(compute["b"].latency) ELSE {0}) :
             ScheduleLimit("b", s, 2, 1, k, j)
    \/ Step

SpecConfig == InitConfig /\ [][NextConfig]_vars

\* ---------------------------------------------------------------- C25
\* C25: a Market with a non-positive tick size or a non-positive tick duration
\* fails at construction, so no such Market ever accepts an operation
C25_ConfigValidated ==
    ret.op # "init" => cfg.tick_size > 0 /\ cfg.tick_duration_ms > 0

\* the half that the code keeps: no Market has a non-positive tick size
C25_TickSizePositive == cfg.tick_size > 0

\* ---------------------------------------------------------------- C26
\* the trade carries the limit of the aggressive order on its own side and, on
\* the other side, the price at which the matched order rested before the call
CarriesLimits(tr, side, limit) ==
    IF side = "BUY"
    THEN tr.buyer_limit = limit /\ tr.seller_limit = Some(book.id_index[tr.sell_order_id][1])
    ELSE tr.seller_limit = limit /\ tr.buyer_limit = Some(book.id_index[tr.buy_order_id][1])
\* the emitted record has both limits, the taker id and the taker side
EmitsLimits(rec, tick) ==
    /\ {"buyer_limit", "seller_limit", "taker_agent", "taker_side"} \subseteq DOMAIN TradeLogLine(rec, tick)
    /\ TradeLogLine(rec, tick).buyer_limit = rec.trade.buyer_limit
    /\ TradeLogLine(rec, tick).seller_limit = rec.trade.seller_limit

\* C26: every trade carries the original limit prices of both counterparties
\* (the resting side's is the price it rested at, the aggressive side's its own
\* limit, absent for a market order), and the emitted trade record contains
\* buyer_limit and seller_limit together with the taker id and the taker side
C26_TradeLimits ==
    [][/\ \A a \in Agents, s \in Sides, p \in BookPrices, q \in QtyInputs :
             SubmitLimit(a, s, p, q) =>
                \A i \in 1..Len(ret'.trades) :
                   CarriesLimits(ret'.trades[i].trade, s, Some(p)) /\ EmitsLimits(ret'.trades[i], t')
       /\ \A a \in Agents, s \in Sides, q \in QtyInputs :
             SubmitMarket(a, s, q) =>
                \A i \in 1..Len(ret'.trades) :
                   CarriesLimits(ret'.trades[i].trade, s, None) /\ EmitsLimits(ret'.trades[i], t')]_vars

\* the half of C26 about the trade itself, which holds of the matching code
C26_TradeCarriesLimits ==
    [][/\ \A a \in Agents, s \in Sides, p \in BookPrices, q \in QtyInputs :
             SubmitLimit(a, s, p, q) =>
                \A i \in 1..Len(ret'.trades) : CarriesLimits(ret'.trades[i].trade, s, Some(p))
       /\ \A a \in Agents, s \in Sides, q \in QtyInputs :
             SubmitMarket(a, s, q) =>
                \A i \in 1..Len(ret'.trades) : CarriesLimits(ret'.trades[i].trade, s, None)]_vars

\* ---------------------------------------------------------------- C27
\* the quantity resting at price p of one side
RECURSIVE QtyFrom(_, _)
QtyFrom(queue, i) == IF i > Len(queue) THEN 0 ELSE queue[i].qty + QtyFrom(queue, i + 1)
LevelQty(d, p) == QtyFrom(d[p], 1)
\* `levels` are the Min(k, number of levels) best prices of d, best first,
\* each with the quantity resting there; Better(p, q): p is nearer the touch
DepthOf(levels, d, k, top) ==
    /\ Len(levels) = Min(k, Cardinality(DOMAIN d))
    /\ \A i \in 1..Len(levels) :
          /\ levels[i][1] \in DOMAIN d
          /\ levels[i][2] = LevelQty(d, levels[i][1])
          /\ \A j \in (i + 1)..Len(levels) :
                IF top = "max" THEN levels[i][1] > levels[j][1] ELSE levels[i][1] < levels[j][1]
          /\ \A p \in DOMAIN d \ {levels[j][1] : j \in 1..Len(levels)} :
                IF top = "max" THEN levels[i][1] > p ELSE levels[i][1] < p
RECURSIVE TotalQty(_, _)
TotalQty(d, prices) ==
    IF prices = {} THEN 0
    ELSE LET p == CHOOSE x \in prices : TRUE IN LevelQty(d, p) + TotalQty(d, prices \ {p})
\* depth1 and depth5 of one side as step() reports them; no side of the model
\* has more than five levels, so the best five are all of them
DepthReported(d1, d5, d, top) ==
    /\ d1 = (IF DOMAIN d = {} THEN None ELSE Some(LevelQty(d, BestOf(DOMAIN d, top)[1])))
    /\ Cardinality(DOMAIN d) <= 5
    /\ d5 = TotalQty(d, DOMAIN d)
    /\ DOMAIN d # {} => d1[1] <= d5
DepthTopK == 0..3

C27_WitnessBids ==
    StepReturned /\ DOMAIN book.bids = {2, 4} /\ TickRecord.depth1_bid = Some(1) /\ TickRecord.depth5_bid = 2

\* ---------------------------------------------------------------- policy knobs
\* The run configuration as the policy sweep writes it: the base configuration
\* with one of message_limit_per_tick, min_resting_ticks or
\* batch_interval_ticks added. The driver builds MarketConfig from tick_size,
\* the two fees and tick_duration_ms only, and no operation of the Market
\* reads another key.
PolicyConfigs ==
    {[tick_size |-> 2, fee_per_message |-> 1, fee_per_share |-> 1, tick_duration_ms |-> 2,
      message_limit_per_tick |-> Some(1), min_resting_ticks |-> None, batch_interval_ticks |-> None],
     [tick_size |-> 2, fee_per_message |-> 1, fee_per_share |-> 1, tick_duration_ms |-> 2,
      message_limit_per_tick |-> None, min_resting_ticks |-> Some(2), batch_interval_ticks |-> None],
     [tick_size |-> 2, fee_per_message |-> 1, fee_per_share |-> 1, tick_duration_ms |-> 2,
      message_limit_per_tick |-> None, min_resting_ticks |-> None, batch_interval_ticks |-> Some(2)]}
InitPolicy ==
    /\ cfg \in PolicyConfigs
    /\ book = EmptyBook
    /\ t = 0
    /\ agents = [a \in Agents |-> AgentState]
    /\ next_order_id = 1
    /\ last_trade_price = None
    /\ compute = EmptyDict
    /\ pq = {}
    /\ seq = 0
    /\ trades_this_tick = 0
    /\ volume_this_tick = 0
    /\ messages_this_tick = 0
    /\ dropped = {}
    /\ ret = Ret("init", "", FALSE, <<>>, None, <<>>, None)

\* one participant without a compute profile under the tick loop: it rests and
\* cancels asks directly, then schedules zero-latency bids, then step() runs
PolicySides == {"SELL"}
PolicyPrices == {2, 4}
NextPolicy ==
    \/ ret.op \in {"init", "step"} /\ BeginTick
    \/ \E s \in PolicySides, p \in PolicyPrices : FirstActs /\ SubmitLimit("a", s, p, 1)
    \/ \E id \in 1..MaxOrders : FirstActs /\ Cancel("a", id)
    \/ \E p \in PolicyPrices : TickOpen /\ ScheduleLimit("a", "BUY", p, 1, 1, 0)
    \/ TickOpen /\ Step

SpecPolicy == InitPolicy /\ [][NextPolicy]_vars

\* ---------------------------------------------------------------- C28
\* C28: with message_limit_per_tick = N configured, once N messages were
\* submitted in the current tick a further submission is rejected and does not
\* reach the book
C28_MessageLimit ==
    [][\A s \in PolicySides, p \in PolicyPrices :
          (/\ cfg.message_limit_per_tick # None
           /\ messages_this_tick >= cfg.message_limit_per_tick[1]
           /\ SubmitLimit("a", s, p, 1))
          => book' = book /\ ret'.trades = <<>>]_vars

\* ---------------------------------------------------------------- C29
\* C29: with batch_interval_ticks = B configured, a step() whose resulting tick
\* is not a multiple of B applies no due intent (queue and book unchanged), and
\* one whose resulting tick is a multiple of B leaves no due intent pending
C29_BatchInterval ==
    [][(cfg.batch_interval_ticks # None /\ Step)
          => IF (t + 1) % cfg.batch_interval_ticks[1] # 0
             THEN book' = book /\ pq' = pq
             ELSE \A ev \in pq' : ev.arrival_t > t']_vars

\* ---------------------------------------------------------------- C30
\* the resting order with the given id, if any
RestingOrders ==
    {o \in UNION {{book.bids[p][i] : i \in 1..Len(book.bids[p])} : p \in DOMAIN book.bids}
           \cup UNION {{book.asks[p][i] : i \in 1..Len(book.asks[p])} : p \in DOMAIN book.asks} : TRUE}

\* C30: with min_resting_ticks = R configured, a cancel issued fewer than R
\* ticks after the order was placed returns False and leaves the order at its
\* queue position
C30_MinRestingTicks ==
    [][\A id \in 1..MaxOrders :
          (/\ cfg.min_resting_ticks # None
           /\ \E o \in RestingOrders : o.id = id /\ t - o.ts < cfg.min_resting_ticks[1]
           /\ Cancel("a", id))
          => ret'.payload = Some(FALSE) /\ book' = book]_vars

\* ---------------------------------------------------------------- C31
\* p is strictly nearer the touch than q on the side an order of `side` takes from
BetterFor(side, p, q) == IF side = "BUY" THEN p < q ELSE p > q
\* the trades `recs` of one aggressive order of `side` walked the opposite
\* side of the book bk best level first, leaving it as bk2
WalkedInOrder(recs, side, bk, bk2) ==
    \A i \in 1..Len(recs) :
       /\ \A p \in DOMAIN SideOf(bk, Opposite(side)) :
             BetterFor(side, p, recs[i].trade.price) => p \notin DOMAIN SideOf(bk2, Opposite(side))
       /\ \A j \in (i + 1)..Len(recs) : ~BetterFor(side, recs[j].trade.price, recs[i].trade.price)
WithinLimit(recs, side, limit) ==
    \A i \in 1..Len(recs) : ~BetterFor(side, limit, recs[i].trade.price)

C31_WitnessLimit ==
    /\ ret.op = "submit_limit"
    /\ Len(ret.trades) = 1
    /\ ret.trades[1].taker_side = "BUY"
    /\ ret.trades[1].trade.price = 2
    /\ DOMAIN book.asks = {4}
    /\ DOMAIN book.bids = {2}

\* ---------------------------------------------------------------- C32
\* the order of bk that the trade of `rec` consumed
MakerOf(rec, bk) == CHOOSE o \in Resting(bk) : o.id = RestingId(rec.trade)
AtMakerPrice(recs, bk) ==
    \A i \in 1..Len(recs) :
       /\ \E o \in Resting(bk) : o.id = RestingId(recs[i].trade)
       /\ recs[i].trade.price = MakerOf(recs[i], bk).price
       /\ MakerOf(recs[i], bk).price \in DOMAIN SideOf(bk, MakerOf(recs[i], bk).side)
\* what the buyer pays, or the seller receives, for the trades of `recs`
RECURSIVE Notional(_)
Notional(recs) ==
    IF recs = <<>> THEN 0 ELSE Head(recs).trade.price * Head(recs).trade.qty + Notional(Tail(recs))

PositionOf(queue, id) == CHOOSE k \in 1..Len(queue) : queue[k].id = id
\* the order o of bk, of which the trade tr took a part only, is in bk2 at the
\* head of its queue, reduced by the traded quantity and otherwise unchanged,
\* with the orders that were behind it still behind it, and can be cancelled
KeepsPlace(o, tr, bk, bk2) ==
    /\ o.price \in DOMAIN SideOf(bk2, o.side)
    /\ Head(SideOf(bk2, o.side)[o.price]) =
          [id |-> o.id, agent_id |-> o.agent_id, side |-> o.side, price |-> o.price,
           qty |-> o.qty - tr.qty, ts |-> o.ts, is_market |-> FALSE]
    /\ Tail(SideOf(bk2, o.side)[o.price]) =
          SubSeq(SideOf(bk, o.side)[o.price], PositionOf(SideOf(bk, o.side)[o.price], o.id) + 1,
                 Len(SideOf(bk, o.side)[o.price]))
    /\ o.id \in DOMAIN bk2.id_index
    /\ book_cancel(bk2, o.id).ok
    /\ ~IsResting(book_cancel(bk2, o.id).book, o.id)

LevelsLive(d) ==
    \A p \in DOMAIN d :
       /\ d[p] # <<>>
       /\ \A i \in 1..Len(d[p]) : d[p][i].qty > 0 /\ d[p][i].price = p

C34_WitnessMatch ==
    /\ ret.op \in SubmitOps
    /\ ret.trades # <<>>
    /\ ret.trades[1].trade.price = 2
    /\ top_of_book(book) = <<None, Some(4)>>

\* ---------------------------------------------------------------- C35
\* participant x scheduled an intent: nothing changed but x's tokens, the
\* pending queue (by at most the new intent) and the sequence counter
OnlyScheduler(x) ==
    /\ UNCHANGED <<cfg, book, t, agents, next_order_id, last_trade_price,
                   trades_this_tick, volume_this_tick, messages_this_tick>>
    /\ DOMAIN compute' = DOMAIN compute
    /\ \A y \in DOMAIN compute :
          /\ y # x => compute'[y] = compute[y]
          /\ compute'[y].budget = compute[y].budget
          /\ compute'[y].latency = compute[y].latency
    /\ seq' = seq + 1
    /\ pq \subseteq pq'
    /\ \A ev \in pq' \ pq : ev.agent_id = x /\ ev.seq = seq'
    /\ Cardinality(pq' \ pq) <= 1

\* every jitter draw of every profile
AnyJitter == UNION {JitterDraws(pr[2]) : pr \in Profiles}

\* C35: schedule_limit and schedule_market, granted or degraded, change only
\* the participant's tokens, the pending queue and the sequence counter; book,
\* cash, inventory, tick and per-tick counters are left to a later step()
C35_SchedulingFrame ==
    [][/\ \A a \in Agents, s \in Sides, p \in SchedPrices, q \in SchedQtys, k \in TokenInputs, j \in AnyJitter :
             ScheduleLimit(a, s, p, q, k, j) => OnlyScheduler(a)
       /\ \A a \in Agents, s \in Sides, q \in SchedQtys, k \in TokenInputs, j \in AnyJitter :
             ScheduleMarket(a, s, q, k, j) => OnlyScheduler(a)]_vars

\* a degraded request was scheduled while an order rested in the book
C35_Witness ==
    /\ ret.op \in ScheduleOps
    /\ ret.intent[1].degraded
    /\ Resting(book) # {}

\* a granted request took tokens and entered the queue
C35_WitnessGranted ==
    /\ ret.op \in ScheduleOps
    /\ ~ret.intent[1].degraded
    /\ ret.intent[1].tokens_used > 0
    /\ \E ev \in pq : ev.seq = seq

\* ---------------------------------------------------------------- C36
\* the intents of the queue that are due at tick `tick`
Due(tick) == {ev \in pq : ev.arrival_t <= tick}

\* the due intent that comes first in queue order (arrival tick, then sequence)
FirstDue(tick) ==
    CHOOSE ev \in Due(tick) :
        \A o \in Due(tick) : ev.arrival_t < o.arrival_t \/ (ev.arrival_t = o.arrival_t /\ ev.seq <= o.seq)

\* the direct call with the participant, side, price and quantity of intent ev
DirectCall(m, tick, ev) ==
    IF ev.intent_type = "limit"
    THEN submit_limit(m, tick, ev.agent_id, ev.side, ev.price[1], ev.qty)
    ELSE submit_market(m, tick, ev.agent_id, ev.side, ev.qty)

\* book, ledgers and order-id counter after the step are those of r
SameEffect(r) ==
    /\ book' = r.m.book
    /\ agents' = r.m.agents
    /\ next_order_id' = r.m.next_order_id
    /\ last_trade_price' = r.m.last_trade_price

\* r1 is the direct call for the first due intent; the second one follows
\* unless the first raised
SameEffectTwo(r1, ev2, tick) ==
    IF r1.raised THEN SameEffect(r1) ELSE SameEffect(DirectCall(r1.m, tick, ev2))

C36_WitnessTwo ==
    /\ ret.op = "step"
    /\ Len(ret.delivered) = 2
    /\ ~ret.raised

\* a step applied a scheduled limit that rested in the book
C36_WitnessRests ==
    /\ ret.op = "step"
    /\ Len(ret.delivered) = 1
    /\ \E o \in Resting(book) : o.agent_id = ret.delivered[1].agent_id /\ o.ts = t

\* ---------------------------------------------------------------- C37
\* C37: a step() in which one due intent fails with InvalidPrice loses no
\* other intent: every intent that was pending before the step is either
\* still in the queue or has been applied exactly once by this step
C37_FailureKeepsOthers ==
    [][ret'.op = "step" =>
          \A x \in pq :
              \/ x \in pq'
              \/ Cardinality({i \in 1..Len(ret'.delivered) : ret'.delivered[i] = x}) = 1]_vars

\* ---------------------------------------------------------------- C38
\* the places of the resting orders of bk: <<side, price, position in queue>>
Slots(bk) ==
    {x \in Sides \X (DOMAIN bk.bids \cup DOMAIN bk.asks) \X (1..MaxOrders) :
        x[2] \in DOMAIN SideOf(bk, x[1]) /\ x[3] <= Len(SideOf(bk, x[1])[x[2]])}
OrderAt(bk, x) == SideOf(bk, x[1])[x[2]][x[3]]

\* no two resting orders share an id, and the id index holds exactly the ids
\* of the resting orders, each with the price and side of its level
IndexConsistent(bk) ==
    /\ \A x, y \in Slots(bk) : OrderAt(bk, x).id = OrderAt(bk, y).id => x = y
    /\ DOMAIN bk.id_index = {OrderAt(bk, x).id : x \in Slots(bk)}
    /\ \A x \in Slots(bk) :
          /\ bk.id_index[OrderAt(bk, x).id] = <<x[2], x[1]>>
          /\ OrderAt(bk, x).price = x[2]
          /\ OrderAt(bk, x).side = x[1]

C38_WitnessCancel ==
    /\ ret.op = "cancel"
    /\ last_trade_price = None
    /\ ~IsResting(book, 1)
    /\ IsResting(book, 2)

\* ---------------------------------------------------------------- C39
\* the sums over the two participants
TotalInventory(ag) == ag["a"].inventory + ag["b"].inventory
TotalCash(ag) == ag["a"].cash + ag["b"].cash

\* the messages the operation that just ended was charged for: one per
\* submission or cancel, one per intent applied by a step
MessagesCharged(r) ==
    IF r.op \in SubmitOps \cup {"cancel"} THEN 1
    ELSE IF r.op = "step" THEN Len(r.delivered)
    ELSE 0

\* the fees the operation charged: the message fee per message and the taker
\* fee per traded share
FeesCharged(r) == cfg.fee_per_message * MessagesCharged(r) + cfg.fee_per_share * RecordsQty(r.trades)

CancelledForAnyone(x, id) ==
    /\ ~IsResting(book', id)
    /\ Resting(book') = {o \in Resting(book) : o.id # id}
    /\ ret'.payload = Some(TRUE)
    /\ agents'[x].cash = agents[x].cash - cfg.fee_per_message
    /\ \A y \in Agents :
          /\ agents'[y].inventory = agents[y].inventory
          /\ y # x => agents'[y].cash = agents[y].cash

\* C40: Market.cancel removes the resting order with the given id whichever
\* participant owns it; the caller alone pays the message fee, and no
\* inventory and no other participant's cash changes
C40_CancelAnyOwner ==
    [][\A x \in Agents, id \in 1..MaxOrders :
          (Cancel(x, id) /\ IsResting(book, id)) => CancelledForAnyone(x, id)]_vars

\* a participant cancelled an order that another participant owned
C40_Witness ==
    /\ ret.op = "cancel"
    /\ ret.payload = Some(TRUE)
    /\ agents[ret.agent].cash = 0 - cfg.fee_per_message
    /\ agents[ret.agent].inventory = 0
    /\ \E y \in Agents : y # ret.agent /\ agents[y].cash = 0 - cfg.fee_per_message
    /\ book = EmptyBook
    /\ next_order_id = 2

====
